---- MODULE Spec2Model ----
(***************************************************************************)
(* Model of parsl/monitoring/db_manager.py: the Database store adapter,    *)
(* the three _migrate_logs_to_internal intake threads, the batcher         *)
(* _get_messages_in_batch, the coordinator loop DatabaseManager.start and  *)
(* the finaliser DatabaseManager.close.                                    *)
(***************************************************************************)
EXTENDS Integers, Sequences, FiniteSets, TLC

(***************************************************************************)
(* Bounds of the model.                                                    *)
(***************************************************************************)
\* number of non-STOP items the senders may place on the priority queue
MaxPriority == 2
\* number of items the senders may place on the resource queue
MaxResource == 2
\* number of items the senders may place on the node queue
MaxNode == 1
\* number of DML calls that may raise for a reason outside the model
MaxFailures == 1
\* number of messages of a workload that is never told to stop
MaxRunning == 3
\* number of messages of a workload that holds STOP
MaxStopped == 2
\* number of messages of a workload in which a DML call may raise
MaxFaulty == 2
\* the batching_threshold the manager is constructed with
ConfiguredThreshold == 2
\* number of items the senders may still put once the shutdown flag is set
MaxLate == 1
\* number of messages of a workload whose termination is checked
MaxLive == 1
\* a batching_threshold smaller than the number of messages of a workload
SmallThreshold == 1
\* number of items the internal queue of a running batcher call may hold
MaxFed == 2
\* number of items of its list a running batcher call is followed for
MaxBatch == 3

(***************************************************************************)
(* Program constants.                                                      *)
(***************************************************************************)
\* float('inf'), the interval and threshold close() installs
Inf == 1000000

WORKFLOW == "workflow"
TASK == "task"
TRY == "try"
STATUS == "status"
RESOURCE == "resource"
NODE == "node"

Tables == {WORKFLOW, TASK, TRY, STATUS, RESOURCE, NODE}

\* the queue_tag values of the three intake threads
Tags == {"priority", "node", "resource"}

None == "None"
STOP == "STOP"

(***************************************************************************)
(* The values the senders draw message fields from.                        *)
(***************************************************************************)
\* every field value is held in its textual form: the integer ids as their
\* decimal text, the instants as "t1", "t2", ...
RunId == "r1"
TaskIds == {"1"}
TryIds == {"0", "1"}
Hostnames == {"h1"}
\* a DFK task record never carries States.running: only the resource
\* monitor's first message stands for that transition
TaskStatusNames == {"pending"}
running == "running"

(***************************************************************************)
(* Schema: the modelled columns of each table, its primary key and its     *)
(* nullable=False columns.                                                 *)
(***************************************************************************)
Columns(table) ==
    CASE table = WORKFLOW -> {"run_id", "time_began", "time_completed",
                              "tasks_completed_count"}
      [] table = TASK     -> {"task_id", "run_id", "task_time_returned"}
      [] table = TRY      -> {"try_id", "task_id", "run_id", "hostname",
                              "task_time_running", "task_try_time_returned"}
      [] table = STATUS   -> {"task_id", "task_status_name", "timestamp",
                              "run_id", "try_id"}
      [] table = RESOURCE -> {"try_id", "task_id", "run_id", "timestamp"}
      [] table = NODE     -> {"id", "run_id", "hostname"}

PrimaryKey(table) ==
    CASE table = WORKFLOW -> {"run_id"}
      [] table = TASK     -> {"task_id", "run_id"}
      [] table = TRY      -> {"try_id", "task_id", "run_id"}
      [] table = STATUS   -> {"task_id", "run_id", "task_status_name",
                              "timestamp"}
      [] table = RESOURCE -> {"try_id", "task_id", "run_id", "timestamp"}
      [] table = NODE     -> {"id"}

NotNullable(table) ==
    CASE table = WORKFLOW -> {"run_id", "time_began", "tasks_completed_count"}
      [] table = TASK     -> {"task_id", "run_id"}
      [] table = TRY      -> {"try_id", "task_id", "run_id"}
      [] table = STATUS   -> {"task_id", "task_status_name", "timestamp",
                              "run_id", "try_id"}
      [] table = RESOURCE -> {"try_id", "task_id", "run_id", "timestamp"}
      [] table = NODE     -> {"run_id", "hostname"}

\* msg.get(column, None)
Get(msg, column) == IF column \in DOMAIN msg THEN msg[column] ELSE None

\* Database._generate_mappings: one mapping per message, in order, holding
\* exactly the requested columns (the caller passes Columns(table) where the
\* code passes columns=None)
generate_mappings(table, columns, messages) ==
    [i \in 1..Len(messages) |-> [c \in columns |-> Get(messages[i], c)]]

KeyOf(table, m) == [c \in PrimaryKey(table) |-> Get(m, c)]

\* the autoincrement id a Node mapping gets when it is the i-th of a batch
NodeId(rows, i) == ToString(Cardinality(rows) + i)

WithId(table, rows, mappings) ==
    IF table = NODE
    THEN [i \in 1..Len(mappings) |->
            [c \in Columns(NODE) |->
                IF c = "id" THEN NodeId(rows, i) ELSE mappings[i][c]]]
    ELSE mappings

\* session.bulk_insert_mappings raises on a primary-key conflict (with a
\* stored row or within the batch) and on a null in a nullable=False column
InsertRaises(table, rows, mappings) ==
    \/ \E i \in 1..Len(mappings) :
          \E c \in NotNullable(table) : mappings[i][c] = None
    \/ \E i \in 1..Len(mappings) :
          \E r \in rows : KeyOf(table, r) = KeyOf(table, mappings[i])
    \/ \E i, j \in 1..Len(mappings) :
          i < j /\ KeyOf(table, mappings[i]) = KeyOf(table, mappings[j])

PrimaryKeyConflict(table, rows, mappings) ==
    \/ \E i \in 1..Len(mappings) :
          \E r \in rows : KeyOf(table, r) = KeyOf(table, mappings[i])
    \/ \E i, j \in 1..Len(mappings) :
          i < j /\ KeyOf(table, mappings[i]) = KeyOf(table, mappings[j])

\* an insert that writes over what the table holds
InsertRowsOver(table, rows, mappings) ==
    IF mappings = <<>> THEN rows
    ELSE {mappings[i] : i \in 1..Len(mappings)}

\* Database.insert, committed
InsertRows(table, rows, mappings) ==
    rows \cup {mappings[i] : i \in 1..Len(mappings)}

\* one UPDATE by primary key: the listed columns of the matching row
UpdateOne(table, rows, m) ==
    {IF KeyOf(table, r) = KeyOf(table, m)
     THEN [c \in DOMAIN r |-> IF c \in DOMAIN m THEN m[c] ELSE r[c]]
     ELSE r : r \in rows}

RECURSIVE UpdateRows(_, _, _)
\* Database.update, committed: the mappings are applied in order
UpdateRows(table, rows, mappings) ==
    IF mappings = <<>> THEN rows
    ELSE UpdateRows(table, UpdateOne(table, rows, Head(mappings)),
                    Tail(mappings))

\* an UPDATE whose primary key matches no row
UpdateMisses(table, rows, mappings) ==
    \E i \in 1..Len(mappings) :
        \A r \in rows : KeyOf(table, r) # KeyOf(table, mappings[i])

(***************************************************************************)
(* The store behind the _insert and _update wrappers.  A call either       *)
(* commits or raises; the wrapper then rolls back, so none of its rows are *)
(* persisted, and returns normally.                                        *)
(***************************************************************************)
\* rows of a table, each with the name of the table
Rows(table, rows) == {[table |-> table, row |-> r] : r \in rows}

\* a store whose rollback does not undo the rows of the call that raised
InsertKept(d, table, messages, inject) ==
    LET mappings == WithId(table, d[table],
                           generate_mappings(table, Columns(table), messages))
        raises == /\ messages # <<>>
                  /\ inject \/ InsertRaises(table, d[table], mappings)
    IN  [db |-> IF messages = <<>> THEN d
                ELSE [d EXCEPT ![table] = InsertRows(table, d[table], mappings)],
         called |-> messages # <<>>,
         raised |-> raises,
         conflict |-> messages # <<>>
                      /\ PrimaryKeyConflict(table, d[table], mappings),
         lost |-> IF raises
                  THEN Rows(table, InsertRows(table, d[table], mappings) \ d[table])
                  ELSE {}]

\* Database.insert under DatabaseManager._insert.  inject: the call raises
\* for a reason outside the model (a locked or unreachable store)
Insert(d, table, messages, inject) ==
    LET mappings == WithId(table, d[table],
                           generate_mappings(table, Columns(table), messages))
        raises == /\ messages # <<>>
                  /\ inject \/ InsertRaises(table, d[table], mappings)
    IN  [db |-> IF raises \/ messages = <<>> THEN d
                ELSE [d EXCEPT ![table] = InsertRows(table, d[table], mappings)],
         called |-> messages # <<>>,
         raised |-> raises,
         conflict |-> messages # <<>>
                      /\ PrimaryKeyConflict(table, d[table], mappings),
         lost |-> IF raises
                  THEN Rows(table, InsertRows(table, d[table], mappings) \ d[table])
                  ELSE {}]

\* Database.update under DatabaseManager._update.  stale: what the store does
\* with an UPDATE that matches no row (TRUE: the call raises, FALSE: the
\* row is skipped)
Update(d, table, columns, messages, inject, stale) ==
    LET mappings == generate_mappings(table, columns, messages)
        raises == /\ messages # <<>>
                  /\ inject \/ (stale /\ UpdateMisses(table, d[table], mappings))
    IN  [db |-> IF raises \/ messages = <<>> THEN d
                ELSE [d EXCEPT ![table] = UpdateRows(table, d[table], mappings)],
         called |-> messages # <<>>,
         raised |-> raises,
         conflict |-> FALSE,
         lost |-> IF raises
                  THEN Rows(table, UpdateRows(table, d[table], mappings) \ d[table])
                  ELSE {}]

(***************************************************************************)
(* The messages of the three streams.                                      *)
(***************************************************************************)
Timestamp(n) == "t" \o ToString(n)

\* the workflow start message: the one that carries python_version
WorkflowStart(n) ==
    [run_id |-> RunId, python_version |-> "3", time_began |-> Timestamp(n),
     tasks_completed_count |-> "0"]

WorkflowEnd(n) ==
    [run_id |-> RunId, time_completed |-> Timestamp(n),
     tasks_completed_count |-> ToString(n)]

TaskInfo(task_id, try_id, status, n) ==
    [run_id |-> RunId, task_id |-> task_id, try_id |-> try_id,
     task_status_name |-> status, timestamp |-> Timestamp(n),
     tasks_completed_count |-> ToString(n)]

\* the items the senders may place on the priority queue as their n-th
PriorityItems(n) ==
    {<<"WORKFLOW_INFO", WorkflowStart(n)>>, <<"WORKFLOW_INFO", WorkflowEnd(n)>>,
     <<"NODE_INFO", [run_id |-> RunId]>>}
    \cup {<<"TASK_INFO", TaskInfo(t, r, s, n)>> :
            t \in TaskIds, r \in TryIds, s \in TaskStatusNames}

ResourceMsg(task_id, try_id, first, host, n) ==
    [run_id |-> RunId, task_id |-> task_id, try_id |-> try_id,
     timestamp |-> Timestamp(n), first_msg |-> first, hostname |-> host]

\* resource and node items are tuples whose last element is the message
ResourceItems(n) ==
    {<<"src", ResourceMsg(t, r, f, h, n)>> :
        t \in TaskIds, r \in TryIds, f \in BOOLEAN, h \in Hostnames}

NodeItems(n) ==
    {<<"src", [run_id |-> RunId, hostname |-> h, reg_time |-> Timestamp(n)]>> :
        h \in Hostnames}

IsStop(x) == Len(x) = 1 /\ x[1] = STOP

\* a key that leaves the try out
task_id_alone(msg) == msg.task_id

\* str(msg['task_id']) + "." + str(msg['try_id'])
task_try_id(msg) == msg.task_id \o "." \o msg.try_id

(***************************************************************************)
(* State.                                                                  *)
(***************************************************************************)
VARIABLES
    logs_queue,        \* the external queues, by queue_tag
    pending,           \* pending_priority_queue, pending_node_queue, pending_resource_queue
    kill_event,
    batching_interval,
    batching_threshold,
    workflow_end,
    workflow_start_message,   \* <<>> for None, <<msg>> otherwise
    db,                \* the rows of each table
    exception_q,
    pc,                \* where each thread is
    x,                 \* what each intake thread holds between get and put
    inserted_tasks,
    inserted_tries,
    deferred_resource_messages,
    reprocessable_first_resource_messages,
    priority_messages,        \* what is left of the batch in the for loop
    task_info_update_messages,
    task_info_insert_messages,
    task_info_all_messages,
    try_update_messages,
    try_insert_messages,
    interval,          \* the arguments of the running _get_messages_in_batch call
    threshold,
    elapsed,           \* time.time() - start >= interval, in the running call
    \* history, read by no action
    sent,              \* what was placed on each external queue, STOP left out
    received,          \* what the batcher returned for each stream, in order
    stop_sent,
    stop_after,        \* how many priority messages were placed before STOP
    logged,            \* the tries logger.error reported a discarded message for
    out_of_order,      \* the inserts issued ahead of the insert of the row they refer to
    promoted,          \* the reprocessable lists applied so far, one after the other
    late,             \* how many items were put after the shutdown flag was set
    faults,            \* DML calls that may still raise for a reason outside the model
    injected,          \* DML calls that raised for a reason outside the model
    dml_failures,      \* DML calls that raised
    insert_issued,     \* how often a Task or Try insert was issued per key
    pk_conflicts,      \* tables on which a primary-key conflict was raised
    rolled_back,       \* the rows the calls that raised would have written
    store_threads,     \* threads that issued a DML call
    overlap,           \* two threads were inside a store operation at once
    quiet,             \* the senders had finished when the loop condition was last read
    at_exit            \* the queues as the coordinator loop terminated

queueVars == <<logs_queue, pending>>
flagVars == <<kill_event, batching_interval, batching_threshold, workflow_end,
              workflow_start_message>>
loopVars == <<inserted_tasks, inserted_tries, deferred_resource_messages,
              reprocessable_first_resource_messages>>
listVars == <<priority_messages, task_info_update_messages,
              task_info_insert_messages, task_info_all_messages,
              try_update_messages, try_insert_messages>>
argVars == <<interval, threshold, elapsed>>
storeVars == <<db, faults, injected, dml_failures, insert_issued, pk_conflicts,
               rolled_back, store_threads, overlap>>
histVars == <<sent, received, stop_sent, stop_after, logged, out_of_order, promoted, late, quiet, at_exit>>

vars == <<queueVars, flagVars, loopVars, listVars, argVars, storeVars, histVars,
          exception_q, pc, x>>

C == "coordinator"
Threads == Tags \cup {C}

pending_priority_queue == pending["priority"]
pending_node_queue == pending["node"]
pending_resource_queue == pending["resource"]
priority_queue == logs_queue["priority"]
node_queue == logs_queue["node"]
resource_queue == logs_queue["resource"]

MaxItems(tag) ==
    CASE tag = "priority" -> MaxPriority
      [] tag = "resource" -> MaxResource
      [] tag = "node"     -> MaxNode

Items(tag, n) ==
    CASE tag = "priority" -> PriorityItems(n)
      [] tag = "resource" -> ResourceItems(n)
      [] tag = "node"     -> NodeItems(n)

\* what the intake thread of a stream forwards for an external item
Forwarded(tag, item) == IF tag = "priority" THEN item ELSE item[Len(item)]

RECURSIVE NonStop(_, _)
\* the messages of a queue as the intake thread forwards them, STOP left out
NonStop(tag, q) ==
    IF q = <<>> THEN <<>>
    ELSE IF tag = "priority" /\ IsStop(Head(q)[1]) THEN NonStop(tag, Tail(q))
    ELSE <<Forwarded(tag, Head(q)[1])>> \o NonStop(tag, Tail(q))

HasStop(q) == \E i \in 1..Len(q) : IsStop(q[i][1])

\* what was placed on a queue before STOP
BeforeStop(q) ==
    IF HasStop(q)
    THEN SubSeq(q, 1, (CHOOSE i \in 1..Len(q) : IsStop(q[i][1])) - 1)
    ELSE <<>>

RECURSIVE Queues(_, _)
\* the contents a queue may have after at most n puts by the senders: the
\* k-th message of a stream carries the k-th instant of its clock, and STOP
\* is put at most once, anywhere in the priority stream
Queues(tag, n) ==
    IF n = 0 THEN {<<>>}
    ELSE LET shorter == Queues(tag, n - 1)
             full == {q \in shorter : Len(q) = n - 1}
         IN  shorter
             \cup UNION {{Append(q, <<item, "addr">>) :
                            item \in Items(tag, Len(NonStop(tag, q)) + 1)} :
                          q \in {f \in full : Len(NonStop(tag, f)) < MaxItems(tag)}}
             \cup IF tag = "priority"
                  THEN {Append(q, <<<<STOP>>, "addr">>) :
                          q \in {f \in full : ~HasStop(f)}}
                  ELSE {}

\* a put reaches the manager only through a get of its intake thread, and
\* until the shutdown flag is set nothing reads whether an external queue is
\* empty: every put made before that is taken to be made at the start
InitialQueues ==
    {[priority |-> p, node |-> n, resource |-> r] :
        p \in Queues("priority", MaxPriority + 1),
        n \in Queues("node", MaxNode),
        r \in Queues("resource", MaxResource)}

\* the number of messages, STOP left out, on the three queues
Total(q) ==
    Len(NonStop("priority", q["priority"])) + Len(q["node"]) + Len(q["resource"])

\* the workloads: one that holds STOP is kept smaller, as the shutdown
\* multiplies the interleavings
Workloads ==
    {q \in InitialQueues :
        Total(q) <= IF HasStop(q["priority"]) THEN MaxStopped ELSE MaxRunning}

\* batching_interval=1, the constructor's default
ConfiguredInterval == 1

\* what the constructor and the head of start leave empty
Fresh ==
    /\ kill_event = FALSE
    /\ workflow_end = FALSE
    /\ workflow_start_message = <<>>
    /\ db = [t \in Tables |-> {}]
    /\ exception_q = <<>>
    /\ x = [t \in Tags |-> <<>>]
    /\ inserted_tasks = {}
    /\ inserted_tries = {}
    /\ deferred_resource_messages = <<>>
    /\ reprocessable_first_resource_messages = <<>>
    /\ priority_messages = <<>>
    /\ task_info_update_messages = <<>>
    /\ task_info_insert_messages = <<>>
    /\ task_info_all_messages = <<>>
    /\ try_update_messages = <<>>
    /\ try_insert_messages = <<>>
    /\ elapsed = FALSE
    /\ received = [t \in Tags |-> <<>>]
    /\ logged = {}
    /\ out_of_order = {}
    /\ promoted = <<>>
    /\ late = 0
    /\ injected = 0
    /\ dml_failures = 0
    /\ insert_issued = [t \in {TASK, TRY} |-> <<>>]
    /\ pk_conflicts = {}
    /\ rolled_back = {}
    /\ store_threads = {}
    /\ overlap = FALSE
    /\ quiet = FALSE
    /\ at_exit = {}

\* the state after DatabaseManager(batching_threshold=configured) and the
\* head of start
Constructed(configured) ==
    /\ logs_queue \in Workloads
    /\ pending = [t \in Tags |-> <<>>]
    /\ batching_interval = ConfiguredInterval
    /\ batching_threshold = configured
    /\ pc = [t \in Threads |-> IF t = "coordinator" THEN "while" ELSE "poll"]
    /\ interval = ConfiguredInterval
    /\ threshold = configured
    /\ sent = [t \in Tags |-> NonStop(t, logs_queue[t])]
    /\ stop_sent = (\E i \in 1..Len(priority_queue) : IsStop(priority_queue[i][1]))
    /\ stop_after = Len(NonStop("priority", BeforeStop(priority_queue)))
    /\ faults \in {f \in 0..MaxFailures : f > 0 => Total(logs_queue) <= MaxFaulty}
    /\ Fresh

Init == Constructed(ConfiguredThreshold)

(***************************************************************************)
(* The senders: the workflow engine, the node agents and the resource      *)
(* monitors, which place items on the three external queues.               *)
(***************************************************************************)
\* the senders may still put an item on the external queue of this stream
MayPut(tag) ==
    /\ late < MaxLate
    /\ Len(sent[tag]) < MaxItems(tag)
    /\ Len(sent["priority"]) + Len(sent["node"]) + Len(sent["resource"]) < MaxStopped

SendersDone == \A t \in Tags : ~MayPut(t)

\* the coordinator is about to sort a TASK_INFO message or to apply the DML
\* of the priority phase: steps on its own lists and on rows and columns no
\* other thread reads or writes, which commute with every step of another
\* thread
InLocal ==
    /\ pc["coordinator"] = "for_priority"
    /\ priority_messages # <<>> => Head(priority_messages)[1] = "TASK_INFO"

\* an intake thread that can leave its loop, on a queue no sender will put
\* to again
Leaving(tag) == pc[tag] = "poll" /\ kill_event /\ logs_queue[tag] = <<>> /\ ~MayPut(tag)

\* the interleavings kept: a local step of the coordinator is taken as soon
\* as it is enabled, then an intake thread that can leave leaves; otherwise
\* any thread may step
Scheduled(t) ==
    IF InLocal THEN t = "coordinator"
    ELSE IF \E tag \in Tags : Leaving(tag)
         THEN t = CHOOSE tag \in Tags : Leaving(tag)
         ELSE TRUE

\* a put after the shutdown flag was set
Put(tag) ==
    /\ Scheduled("sender")
    /\ kill_event
    /\ MayPut(tag)
    /\ \E item \in Items(tag, Len(sent[tag]) + 1) :
          /\ logs_queue' = [logs_queue EXCEPT ![tag] = Append(@, <<item, "addr">>)]
          /\ sent' = [sent EXCEPT ![tag] = Append(@, Forwarded(tag, item))]
    /\ late' = late + 1
    /\ UNCHANGED <<pending, flagVars, loopVars, listVars, argVars, storeVars,
                   received, stop_sent, stop_after, logged, out_of_order, promoted, quiet, at_exit, exception_q, pc, x>>

(***************************************************************************)
(* Bookkeeping of the store calls a step makes.                            *)
(***************************************************************************)
\* the sets of calls, among n, that may raise for a reason outside the model
Injections(n) == {F \in SUBSET (1..n) : Cardinality(F) <= faults}

\* how many of the calls raised, and how many were made at all
Raised(results) == Cardinality({i \in 1..Len(results) : results[i].raised})

Called(results) == Cardinality({i \in 1..Len(results) : results[i].called})

\* thread t made the calls whose outcomes are results, tables[i] being the
\* table of the i-th, F those that raised for an outside reason
Record(t, results, tables, F) ==
    /\ faults' = faults - Cardinality(F)
    /\ injected' = injected + Cardinality({i \in F : results[i].raised})
    /\ dml_failures' = dml_failures + Raised(results)
    /\ pk_conflicts' = pk_conflicts \cup
          {tables[i] : i \in {j \in 1..Len(results) : results[j].conflict}}
    /\ rolled_back' = rolled_back \cup
          UNION {results[i].lost : i \in 1..Len(results)}
    /\ store_threads' = IF Called(results) > 0
                         THEN store_threads \cup {t} ELSE store_threads
    /\ overlap' = \/ overlap
                  \/ /\ Called(results) > 0
                     /\ \E u \in Threads \ {t} : pc[u] = "close_update"

(***************************************************************************)
(* DatabaseManager._migrate_logs_to_internal, one thread per queue_tag.    *)
(***************************************************************************)
\* the coordinator's while condition reads the size of the external
\* priority and resource queues, at these two places
ReadsQueueAt(tag) ==
    CASE tag = "priority" -> "while_ep"
      [] tag = "resource" -> "while_er"
      [] tag = "node"     -> "never"

\* the item is put at the head of the internal queue
PutFirst(tag, item) ==
    IF tag = "priority" /\ IsStop(item)
    THEN /\ pc' = [pc EXCEPT ![tag] = "close"]
         /\ UNCHANGED pending
    ELSE /\ pending' = [pending EXCEPT ![tag] = <<Forwarded(tag, item)>> \o @]
         /\ pc' = [pc EXCEPT ![tag] = "poll"]

\* what the else branch of the try does with the item x it got: STOP calls
\* close(), anything else is put on the internal queue of the stream
Put_(tag, item) ==
    IF tag = "priority" /\ IsStop(item)
    THEN /\ pc' = [pc EXCEPT ![tag] = "close"]
         /\ UNCHANGED pending
    ELSE /\ pending' = [pending EXCEPT ![tag] = Append(@, Forwarded(tag, item))]
         /\ pc' = [pc EXCEPT ![tag] = "poll"]

\* a loop that exits on the flag alone
ExitOnFlag(tag) ==
    /\ Scheduled(tag)
    /\ pc[tag] = "poll"
    /\ kill_event
    /\ pc' = [pc EXCEPT ![tag] = "done"]
    /\ UNCHANGED <<queueVars, flagVars, loopVars, listVars, argVars, storeVars,
                   histVars, exception_q, x>>

\* the loop exits once the flag is set and the external queue is empty
Exit(tag) ==
    /\ Scheduled(tag)
    /\ pc[tag] = "poll"
    /\ kill_event /\ logs_queue[tag] = <<>>
    /\ pc' = [pc EXCEPT ![tag] = "done"]
    /\ UNCHANGED <<queueVars, flagVars, loopVars, listVars, argVars, storeVars,
                   histVars, exception_q, x>>

\* one turn of the loop, get and put together.  (A get that times out on an
\* empty queue leaves the state as it is.)
Migrate(tag) ==
    /\ Scheduled(tag)
    /\ pc[tag] = "poll"
    /\ logs_queue[tag] # <<>>
    /\ logs_queue' = [logs_queue EXCEPT ![tag] = Tail(@)]
    /\ Put_(tag, Head(logs_queue[tag])[1])
    /\ UNCHANGED <<flagVars, loopVars, listVars, argVars, storeVars,
                   histVars, exception_q, x>>

\* the get alone: the thread holds x, taken off the external queue and not
\* yet put on the internal one.  Only the coordinator's read of the size of
\* this external queue tells this from Migrate, so the turn is split only
\* where that read is the coordinator's next step.
Poll(tag) ==
    /\ Scheduled(tag)
    /\ pc[tag] = "poll"
    /\ pc[C] = ReadsQueueAt(tag)
    /\ logs_queue[tag] # <<>>
    /\ x' = [x EXCEPT ![tag] = Head(logs_queue[tag])[1]]
    /\ logs_queue' = [logs_queue EXCEPT ![tag] = Tail(@)]
    /\ pc' = [pc EXCEPT ![tag] = "got"]
    /\ UNCHANGED <<pending, flagVars, loopVars, listVars, argVars, storeVars,
                   histVars, exception_q>>

\* the rest of the turn Poll began
Forward(tag) ==
    /\ Scheduled(tag)
    /\ pc[tag] = "got"
    /\ Put_(tag, x[tag])
    /\ x' = [x EXCEPT ![tag] = <<>>]
    /\ UNCHANGED <<logs_queue, flagVars, loopVars, listVars, argVars, storeVars,
                   histVars, exception_q>>

(***************************************************************************)
(* DatabaseManager.close, run by the priority intake thread on STOP and by *)
(* dbm_starter, on the coordinator's thread, after an exception.           *)
(***************************************************************************)
Closers == {"priority", "coordinator"}

\* if not self.workflow_end
Close(t) ==
    /\ Scheduled(t)
    /\ pc[t] = "close"
    /\ pc' = [pc EXCEPT ![t] = IF workflow_end THEN "close_interval"
                                ELSE "close_start"]
    /\ UNCHANGED <<queueVars, flagVars, loopVars, listVars, argVars, storeVars,
                   histVars, exception_q, x>>

\* and self.workflow_start_message: when true the thread goes on into _update
CloseStart(t) ==
    /\ Scheduled(t)
    /\ pc[t] = "close_start"
    /\ IF workflow_start_message # <<>>
       THEN /\ pc' = [pc EXCEPT ![t] = "close_update"]
            /\ overlap' = (overlap \/ \E u \in Threads \ {t} : pc[u] = "close_update")
       ELSE /\ pc' = [pc EXCEPT ![t] = "close_interval"]
            /\ UNCHANGED overlap
    /\ UNCHANGED <<queueVars, flagVars, loopVars, listVars, argVars, db, faults,
                   injected, dml_failures, insert_issued, pk_conflicts, rolled_back,
                   store_threads,
                   histVars, exception_q, x>>

\* the workflow end the finaliser synthesises: datetime.datetime.now() and
\* the duration since time_began
Finalised(msg) ==
    [c \in DOMAIN msg \cup {"time_completed", "workflow_duration"} |->
        CASE c = "time_completed" -> "now"
          [] c = "workflow_duration" -> "now-" \o msg.time_began
          [] OTHER -> msg[c]]

CloseUpdate(t) ==
    /\ Scheduled(t)
    /\ pc[t] = "close_update"
    /\ \E F \in Injections(1), stale_raises \in BOOLEAN :
          LET msg == Finalised(workflow_start_message[1])
              r == Update(db, WORKFLOW,
                          {"run_id", "time_completed", "workflow_duration"},
                          <<msg>>, 1 \in F, stale_raises)
          IN  /\ workflow_start_message' = <<msg>>
              /\ db' = r.db
              /\ Record(t, <<r>>, <<WORKFLOW>>, F)
    /\ pc' = [pc EXCEPT ![t] = "close_interval"]
    /\ UNCHANGED <<queueVars, kill_event, batching_interval, batching_threshold,
                   workflow_end, loopVars, listVars, argVars, insert_issued,
                   histVars, exception_q, x>>

\* self.batching_interval, self.batching_threshold = float('inf'), float('inf')
CloseInterval(t) ==
    /\ Scheduled(t)
    /\ pc[t] = "close_interval"
    /\ batching_interval' = Inf
    /\ pc' = [pc EXCEPT ![t] = "close_threshold"]
    /\ UNCHANGED <<queueVars, kill_event, batching_threshold, workflow_end,
                   workflow_start_message, loopVars, listVars, argVars, storeVars,
                   histVars, exception_q, x>>

CloseThreshold(t) ==
    /\ Scheduled(t)
    /\ pc[t] = "close_threshold"
    /\ batching_threshold' = Inf
    /\ pc' = [pc EXCEPT ![t] = "close_kill"]
    /\ UNCHANGED <<queueVars, kill_event, batching_interval, workflow_end,
                   workflow_start_message, loopVars, listVars, argVars, storeVars,
                   histVars, exception_q, x>>

\* a close() that returns without setting the flag
CloseKillUnset(t) ==
    /\ Scheduled(t)
    /\ pc[t] = "close_kill"
    /\ pc' = [pc EXCEPT ![t] = IF t = "coordinator" THEN "done" ELSE "poll"]
    /\ UNCHANGED <<queueVars, flagVars, loopVars, listVars, argVars, storeVars,
                   histVars, exception_q, x>>

\* self._kill_event.set(), then back to the caller
CloseKill(t) ==
    /\ Scheduled(t)
    /\ pc[t] = "close_kill"
    /\ kill_event' = TRUE
    /\ pc' = [pc EXCEPT ![t] = IF t = "coordinator" THEN "done" ELSE "poll"]
    /\ UNCHANGED <<queueVars, batching_interval, batching_threshold, workflow_end,
                   workflow_start_message, loopVars, listVars, argVars, storeVars,
                   histVars, exception_q, x>>

(***************************************************************************)
(* DatabaseManager._get_messages_in_batch.                                 *)
(***************************************************************************)
Min(a, b) == IF a < b THEN a ELSE b

Take(q, k) == SubSeq(q, 1, k)
Drop(q, k) == SubSeq(q, k + 1, Len(q))

\* a batcher that never looks at the length of its list
BatchSizesUnbounded(q, ival, thr) ==
    IF q = <<>> THEN {0}
    ELSE IF ival = Inf THEN {Len(q)}
    ELSE 1..Len(q)

\* how many items a call may return from queue q: it stops when the list
\* has reached the threshold, when a get times out on the empty queue or,
\* under a finite interval, when the interval has elapsed after some get
BatchSizes(q, ival, thr) ==
    IF q = <<>> THEN {0}
    ELSE IF ival = Inf THEN {Min(thr, Len(q))}
    ELSE 1..Min(thr, Len(q))

(***************************************************************************)
(* DatabaseManager.start: the coordinator loop.                            *)
(***************************************************************************)
\* the interval and threshold a call of _get_messages_in_batch may have been
\* given: self.batching_interval and self.batching_threshold are read, in
\* this order, between the coordinator's previous step and the return of
\* the call, and close() sets each of them once
Intervals == {interval, batching_interval}
Thresholds == {threshold, batching_threshold}

\* the coordinator has taken a step: what the two fields hold now
Stepped ==
    /\ interval' = batching_interval
    /\ threshold' = batching_threshold
    /\ UNCHANGED elapsed

\* the operands of the while condition, read one after the other
WhileOperand(at) ==
    CASE at = "while"    -> ~kill_event
      [] at = "while_pp" -> Len(pending_priority_queue) # 0
      [] at = "while_pr" -> Len(pending_resource_queue) # 0
      [] at = "while_ep" -> Len(priority_queue) # 0
      [] at = "while_er" -> Len(resource_queue) # 0

WhileNext(at) ==
    CASE at = "while"    -> "while_pp"
      [] at = "while_pp" -> "while_pr"
      [] at = "while_pr" -> "while_ep"
      [] at = "while_ep" -> "while_er"
      [] at = "while_er" -> "done"

\* a list carried over from the iteration before
StaleReprocessable == reprocessable_first_resource_messages

\* reprocessable_first_resource_messages = []
NewReprocessable == <<>>

While ==
    /\ Scheduled(C)
    /\ pc[C] \in {"while", "while_pp", "while_pr", "while_ep", "while_er"}
    /\ pc' = [pc EXCEPT ![C] = IF WhileOperand(pc[C]) THEN "get_priority"
                                ELSE WhileNext(pc[C])]
    /\ Stepped
    /\ quiet' = IF pc[C] = "while" THEN SendersDone ELSE quiet
    /\ at_exit' = IF ~WhileOperand(pc[C]) /\ pc[C] = "while_er"
                  THEN {[logs_queue |-> logs_queue, pending |-> pending,
                         quiet |-> quiet]}
                  ELSE at_exit
    /\ reprocessable_first_resource_messages' = NewReprocessable
    /\ UNCHANGED <<queueVars, flagVars, inserted_tasks, inserted_tries,
                   deferred_resource_messages, listVars, storeVars,
                   sent, received, stop_sent, stop_after, logged, out_of_order, promoted, late, exception_q, x>>

\* the priority batch; an empty one skips the whole priority phase
GetPriority ==
    /\ Scheduled(C)
    /\ pc[C] = "get_priority"
    /\ \E ival \in Intervals, thr \in Thresholds :
       \E k \in BatchSizes(pending_priority_queue, ival, thr) :
          /\ priority_messages' = Take(pending_priority_queue, k)
          /\ pending' = [pending EXCEPT !["priority"] = Drop(@, k)]
          /\ received' = [received EXCEPT !["priority"] =
                             @ \o Take(pending_priority_queue, k)]
          /\ pc' = [pc EXCEPT ![C] = IF k = 0 THEN "get_node" ELSE "for_priority"]
    /\ Stepped
    /\ UNCHANGED <<logs_queue, flagVars, loopVars, task_info_update_messages,
                   task_info_insert_messages, task_info_all_messages,
                   try_update_messages, try_insert_messages, storeVars,
                   sent, stop_sent, stop_after, logged, out_of_order, promoted, late, quiet, at_exit, exception_q, x>>

\* a set that forgets what is added to it
add_nothing(s, key) == s

\* inserted_tasks.add(...), inserted_tries.add(...)
add(s, key) == s \cup {key}

\* removal of a key from the deferred map: dict.pop
\* a pop that leaves the map as it is
PopNothing(d, key) == d

Pop(d, key) == [k \in DOMAIN d \ {key} |-> d[k]]

\* a map that keeps the message it already holds for the key
StoreFirst(d, key, msg) ==
    IF key \in DOMAIN d THEN d
    ELSE [k \in DOMAIN d \cup {key} |-> IF k = key THEN msg ELSE d[k]]

\* d[key] = msg
Store(d, key, msg) == [k \in DOMAIN d \cup {key} |-> IF k = key THEN msg ELSE d[k]]

\* one turn of "for msg_type, msg in priority_messages", workflow message
ForWorkflow ==
    /\ Scheduled(C)
    /\ pc[C] = "for_priority"
    /\ priority_messages # <<>>
    /\ Head(priority_messages)[1] = "WORKFLOW_INFO"
    /\ LET msg == Head(priority_messages)[2] IN
       \E F \in Injections(1), stale_raises \in BOOLEAN :
          IF "python_version" \in DOMAIN msg
          THEN LET r == Insert(db, WORKFLOW, <<msg>>, 1 \in F) IN
               /\ db' = r.db
               /\ Record(C, <<r>>, <<WORKFLOW>>, F)
               /\ workflow_start_message' = <<msg>>
               /\ UNCHANGED workflow_end
          ELSE LET r == Update(db, WORKFLOW,
                               {"run_id", "tasks_failed_count",
                                "tasks_completed_count", "time_completed"},
                               <<msg>>, 1 \in F, stale_raises) IN
               /\ db' = r.db
               /\ Record(C, <<r>>, <<WORKFLOW>>, F)
               /\ workflow_end' = TRUE
               /\ UNCHANGED workflow_start_message
    /\ priority_messages' = Tail(priority_messages)
    /\ Stepped
    /\ UNCHANGED <<queueVars, kill_event, batching_interval, batching_threshold,
                   loopVars, task_info_update_messages, task_info_insert_messages,
                   task_info_all_messages, try_update_messages,
                   try_insert_messages, insert_issued, histVars,
                   exception_q, pc, x>>

\* one turn of the for loop, TASK_INFO message: sorted into the insert and
\* update lists of Task and Try; a deferred first resource message of a try
\* seen for the first time becomes reprocessable
ForTask ==
    /\ Scheduled(C)
    /\ pc[C] = "for_priority"
    /\ priority_messages # <<>>
    /\ Head(priority_messages)[1] = "TASK_INFO"
    /\ LET msg == Head(priority_messages)[2]
           key == task_try_id(msg)
       IN  /\ task_info_all_messages' = Append(task_info_all_messages, msg)
           /\ IF msg.task_id \in inserted_tasks
              THEN /\ task_info_update_messages' =
                         Append(task_info_update_messages, msg)
                   /\ UNCHANGED <<inserted_tasks, task_info_insert_messages>>
              ELSE /\ inserted_tasks' = add(inserted_tasks, msg.task_id)
                   /\ task_info_insert_messages' =
                         Append(task_info_insert_messages, msg)
                   /\ UNCHANGED task_info_update_messages
           /\ IF key \in inserted_tries
              THEN /\ try_update_messages' = Append(try_update_messages, msg)
                   /\ UNCHANGED <<inserted_tries, try_insert_messages,
                                  deferred_resource_messages,
                                  reprocessable_first_resource_messages>>
              ELSE /\ inserted_tries' = add(inserted_tries, key)
                   /\ try_insert_messages' = Append(try_insert_messages, msg)
                   /\ UNCHANGED try_update_messages
                   /\ IF key \in DOMAIN deferred_resource_messages
                      THEN /\ reprocessable_first_resource_messages' =
                                 Append(reprocessable_first_resource_messages,
                                        deferred_resource_messages[key])
                           /\ deferred_resource_messages' =
                                 Pop(deferred_resource_messages, key)
                      ELSE UNCHANGED <<deferred_resource_messages,
                                       reprocessable_first_resource_messages>>
    /\ priority_messages' = Tail(priority_messages)
    /\ Stepped
    /\ UNCHANGED <<queueVars, flagVars, storeVars, histVars,
                   exception_q, pc, x>>

\* any other type: RuntimeError leaves start(); the lists of the batch are lost
ForOther ==
    /\ Scheduled(C)
    /\ pc[C] = "for_priority"
    /\ priority_messages # <<>>
    /\ Head(priority_messages)[1] \notin {"WORKFLOW_INFO", "TASK_INFO"}
    /\ pc' = [pc EXCEPT ![C] = "except"]
    /\ priority_messages' = <<>>
    /\ task_info_update_messages' = <<>>
    /\ task_info_insert_messages' = <<>>
    /\ task_info_all_messages' = <<>>
    /\ try_update_messages' = <<>>
    /\ try_insert_messages' = <<>>
    /\ reprocessable_first_resource_messages' = <<>>
    /\ UNCHANGED <<queueVars, flagVars, inserted_tasks, inserted_tries,
                   deferred_resource_messages, argVars, storeVars, histVars,
                   exception_q, x>>

\* an except clause that reports nothing
ExceptSilent ==
    /\ Scheduled(C)
    /\ pc[C] = "except"
    /\ pc' = [pc EXCEPT ![C] = "close"]
    /\ UNCHANGED <<queueVars, flagVars, loopVars, listVars, argVars, storeVars,
                   histVars, exception_q, x>>

\* dbm_starter: except Exception: exception_q.put(("DBM", str(e))); dbm.close()
Except ==
    /\ Scheduled(C)
    /\ pc[C] = "except"
    /\ exception_q' = Append(exception_q, <<"DBM", "Unexpected message type">>)
    /\ pc' = [pc EXCEPT ![C] = "close"]
    /\ UNCHANGED <<queueVars, flagVars, loopVars, listVars, argVars, storeVars,
                   histVars, x>>

\* an insert of the row with this key has been issued on the table
Issued(table, key) ==
    \E i \in 1..Len(insert_issued[table]) : insert_issued[table][i] = key

\* the keys of the messages of an insert list
TaskIds_(seq) == [i \in 1..Len(seq) |-> seq[i].task_id]

TaskTryIds(seq) == [i \in 1..Len(seq) |-> task_try_id(seq[i])]

\* the DML of the priority phase, in the order of the code: the Workflow
\* counters, Task insert and update, Status insert, Try insert and update
DmlPriority ==
    /\ Scheduled(C)
    /\ pc[C] = "for_priority"
    /\ priority_messages = <<>>
    /\ \E F \in Injections(6), stale_raises \in BOOLEAN :
          LET r1 == Update(db, WORKFLOW,
                           {"run_id", "tasks_failed_count", "tasks_completed_count"},
                           task_info_all_messages, 1 \in F, stale_raises)
              r2 == Insert(r1.db, TASK, task_info_insert_messages, 2 \in F)
              r3 == Update(r2.db, TASK,
                           {"task_time_submitted", "task_time_returned", "run_id",
                            "task_id", "task_fail_count"},
                           task_info_update_messages, 3 \in F, stale_raises)
              r4 == Insert(r3.db, STATUS, task_info_all_messages, 4 \in F)
              r5 == Insert(r4.db, TRY, try_insert_messages, 5 \in F)
              r6 == Update(r5.db, TRY,
                           {"task_time_returned", "run_id", "task_id", "try_id",
                            "task_fail_history", "task_time_submitted",
                            "task_try_time_returned"},
                           try_update_messages, 6 \in F, stale_raises)
          IN  /\ db' = r6.db
              \* the Workflow update and the Status insert are called
              \* whatever their lists hold, the other four under "if"
              /\ Record(C, <<[r1 EXCEPT !.called = TRUE], r2, r3,
                             [r4 EXCEPT !.called = TRUE], r5, r6>>,
                        <<WORKFLOW, TASK, TASK, STATUS, TRY, TRY>>, F)
    /\ insert_issued' =
          [insert_issued EXCEPT
              ![TASK] = @ \o TaskIds_(task_info_insert_messages),
              ![TRY] = @ \o TaskTryIds(try_insert_messages)]
    /\ task_info_update_messages' = <<>>
    /\ task_info_insert_messages' = <<>>
    /\ task_info_all_messages' = <<>>
    /\ try_update_messages' = <<>>
    /\ try_insert_messages' = <<>>
    /\ out_of_order' = out_of_order
          \cup (IF \E i \in 1..Len(task_info_all_messages) :
                      ~Issued(TRY, task_try_id(task_info_all_messages[i]))
                THEN {"Status before Try"} ELSE {})
          \cup (IF \E i \in 1..Len(try_insert_messages) :
                      /\ ~Issued(TASK, try_insert_messages[i].task_id)
                      /\ \A j \in 1..Len(task_info_insert_messages) :
                            task_info_insert_messages[j].task_id
                               # try_insert_messages[i].task_id
                THEN {"Try before Task"} ELSE {})
    /\ pc' = [pc EXCEPT ![C] = "get_node"]
    /\ Stepped
    /\ UNCHANGED <<queueVars, flagVars, loopVars, priority_messages,
                   sent, received, stop_sent, stop_after, logged, promoted, late, quiet,
                   at_exit, exception_q, x>>

\* the node batch, inserted into Node when not empty
GetNode ==
    /\ Scheduled(C)
    /\ pc[C] = "get_node"
    /\ \E ival \in Intervals, thr \in Thresholds :
       \E k \in BatchSizes(pending_node_queue, ival, thr) :
       \E F \in Injections(1) :
          LET node_info_messages == Take(pending_node_queue, k)
              r == Insert(db, NODE, node_info_messages, 1 \in F)
          IN  /\ pending' = [pending EXCEPT !["node"] = Drop(@, k)]
              /\ received' = [received EXCEPT !["node"] = @ \o node_info_messages]
              /\ db' = r.db
              /\ IF k = 0
                 THEN UNCHANGED <<faults, injected, dml_failures, pk_conflicts,
                                  rolled_back, store_threads, overlap>>
                 ELSE Record(C, <<r>>, <<NODE>>, F)
    /\ pc' = [pc EXCEPT ![C] = "get_resource"]
    /\ Stepped
    /\ UNCHANGED <<logs_queue, flagVars, loopVars, listVars,
                   insert_issued, sent, stop_sent, stop_after, logged, out_of_order, promoted, late, quiet, at_exit, exception_q, x>>

\* the status is set, the running time is not
AsRunningUntimed(msg) ==
    [c \in DOMAIN msg \cup {"task_status_name"} |->
        IF c = "task_status_name" THEN running ELSE msg[c]]

\* msg['task_status_name'] = States.running.name
\* msg['task_time_running'] = msg['timestamp']
AsRunning(msg) ==
    [c \in DOMAIN msg \cup {"task_status_name", "task_time_running"} |->
        CASE c = "task_status_name" -> running
          [] c = "task_time_running" -> msg.timestamp
          [] OTHER -> msg[c]]

RECURSIVE SortAllReprocessable(_, _, _, _)
\* a loop that takes every first message as reprocessable, whether or not
\* its try is in inserted_tries
SortAllReprocessable(resource_messages, reprocessable, deferred, errors) ==
    IF resource_messages = <<>>
    THEN [reprocessable |-> reprocessable, deferred |-> deferred,
          errors |-> errors]
    ELSE LET msg == Head(resource_messages) IN
         IF ~msg.first_msg
         THEN SortAllReprocessable(Tail(resource_messages), reprocessable,
                                   deferred, errors)
         ELSE SortAllReprocessable(Tail(resource_messages),
                                   Append(reprocessable, AsRunning(msg)),
                                   deferred, errors)

RECURSIVE Sort(_, _, _, _)
\* "for msg in resource_messages": a first message of a try already in
\* inserted_tries becomes reprocessable, any other first message is deferred
\* under its task_try_id, replacing one deferred there before, which
\* logger.error reports
Sort(resource_messages, reprocessable, deferred, errors) ==
    IF resource_messages = <<>>
    THEN [reprocessable |-> reprocessable, deferred |-> deferred,
          errors |-> errors]
    ELSE LET msg == Head(resource_messages)
             key == task_try_id(msg)
         IN  IF ~msg.first_msg
             THEN Sort(Tail(resource_messages), reprocessable, deferred, errors)
             ELSE IF key \in inserted_tries
             THEN Sort(Tail(resource_messages),
                       Append(reprocessable, AsRunning(msg)), deferred, errors)
             ELSE Sort(Tail(resource_messages), reprocessable,
                       Store(deferred, key, AsRunning(msg)),
                       IF key \in DOMAIN deferred
                       THEN errors \cup {key} ELSE errors)

\* the resource batch: inserted into Resource, its first messages sorted,
\* then the reprocessable list applied: Status insert and Try update
GetResource ==
    /\ Scheduled(C)
    /\ pc[C] = "get_resource"
    /\ \E ival \in Intervals, thr \in Thresholds :
       \E k \in BatchSizes(pending_resource_queue, ival, thr) :
       \E F \in Injections(3), stale_raises \in BOOLEAN :
          LET resource_messages == Take(pending_resource_queue, k)
              r1 == Insert(db, RESOURCE, resource_messages, 1 \in F)
              sorted == Sort(resource_messages,
                             reprocessable_first_resource_messages,
                             deferred_resource_messages, logged)
              r2 == Insert(r1.db, STATUS, sorted.reprocessable, 2 \in F)
              r3 == Update(r2.db, TRY,
                           {"task_time_running", "run_id", "task_id", "try_id",
                            "hostname"},
                           sorted.reprocessable, 3 \in F, stale_raises)
          IN  /\ pending' = [pending EXCEPT !["resource"] = Drop(@, k)]
              /\ received' = [received EXCEPT !["resource"] = @ \o resource_messages]
              /\ deferred_resource_messages' = sorted.deferred
              /\ logged' = sorted.errors
              /\ promoted' = promoted \o sorted.reprocessable
              /\ out_of_order' = out_of_order
                    \cup (IF \E i \in 1..Len(resource_messages) :
                                ~Issued(TRY, task_try_id(resource_messages[i]))
                          THEN {"Resource before Try"} ELSE {})
                    \cup (IF \E i \in 1..Len(sorted.reprocessable) :
                                ~Issued(TRY, task_try_id(sorted.reprocessable[i]))
                          THEN {"Status before Try"} ELSE {})
              /\ db' = r3.db
              /\ IF k = 0 /\ sorted.reprocessable = <<>>
                 THEN UNCHANGED <<faults, injected, dml_failures, pk_conflicts,
                                  rolled_back, store_threads, overlap>>
                 ELSE Record(C, <<r1, r2, r3>>, <<RESOURCE, STATUS, TRY>>, F)
    /\ reprocessable_first_resource_messages' = NewReprocessable
    /\ pc' = [pc EXCEPT ![C] = "while"]
    /\ Stepped
    /\ UNCHANGED <<logs_queue, flagVars, inserted_tasks, inserted_tries, listVars,
                   insert_issued, sent, stop_sent, stop_after, late, quiet, at_exit,
                   exception_q, x>>

(***************************************************************************)
(* The system.                                                             *)
(***************************************************************************)
Sender == \E tag \in Tags : Put(tag)

Intake == \E tag \in Tags : Exit(tag) \/ Migrate(tag) \/ Poll(tag) \/ Forward(tag)

Finaliser ==
    \E t \in Closers :
        \/ Close(t) \/ CloseStart(t) \/ CloseUpdate(t)
        \/ CloseInterval(t) \/ CloseThreshold(t) \/ CloseKill(t)

Coordinator ==
    \/ While \/ GetPriority \/ ForWorkflow \/ ForTask \/ ForOther \/ Except
    \/ DmlPriority \/ GetNode \/ GetResource

Next == Sender \/ Intake \/ Finaliser \/ Coordinator

Spec == Init /\ [][Next]_vars

(***************************************************************************)
(* The same program under fair scheduling: every thread that can take a    *)
(* step eventually takes one.  Nothing obliges the senders to put.         *)
(***************************************************************************)
\* the engine has placed its messages and, last, STOP on the priority
\* queue; what the node agents and the resource monitors send comes later
LiveInit ==
    /\ Init
    /\ stop_sent
    /\ stop_after = Len(sent["priority"])
    /\ Total(logs_queue) = Len(sent["priority"])
    /\ Total(logs_queue) <= MaxLive
    /\ faults = 0

Worker(tag) ==
    \/ Exit(tag) \/ Migrate(tag) \/ Poll(tag) \/ Forward(tag)
    \/ Close(tag) \/ CloseStart(tag) \/ CloseUpdate(tag)
    \/ CloseInterval(tag) \/ CloseThreshold(tag) \/ CloseKill(tag)

MainThread ==
    \/ Coordinator
    \/ Close(C) \/ CloseStart(C) \/ CloseUpdate(C)
    \/ CloseInterval(C) \/ CloseThreshold(C) \/ CloseKill(C)

Fairness == WF_vars(MainThread) /\ \A tag \in Tags : WF_vars(Worker(tag))

LiveSpec == LiveInit /\ [][Next]_vars /\ Fairness

(***************************************************************************)
(* The same program constructed with a batching_threshold that the         *)
(* workloads can exceed.                                                   *)
(***************************************************************************)
SmallInit ==
    /\ Constructed(SmallThreshold)
    /\ faults = 0

SmallBatchSpec == SmallInit /\ [][Next]_vars

(***************************************************************************)
(* One call of _get_messages_in_batch on the internal priority queue,      *)
(* statement by statement, while the intake thread of the stream goes on   *)
(* putting items on that queue.  The three calls of an iteration run the   *)
(* same code.                                                              *)
(***************************************************************************)
\* the item the intake thread puts
FedItem == <<"TASK_INFO", TaskInfo("1", "0", "pending", 1)>>

RECURSIVE Fed(_)
Fed(n) == IF n = 0 THEN <<>> ELSE Append(Fed(n - 1), FedItem)

\* the interval and the threshold are those of the constructor or those of
\* close(), each read on its own; the call finds up to MaxFed items waiting
BatcherInit ==
    /\ logs_queue = [t \in Tags |-> <<>>]
    /\ pending \in {[t \in Tags |-> IF t = "priority" THEN Fed(n) ELSE <<>>] :
                      n \in 0..MaxFed}
    /\ batching_interval \in {ConfiguredInterval, Inf}
    /\ batching_threshold \in {SmallThreshold, ConfiguredThreshold, Inf}
    /\ pc = [t \in Threads |-> IF t = C THEN "batch_check" ELSE "poll"]
    /\ interval = batching_interval
    /\ threshold = batching_threshold
    /\ sent = [t \in Tags |-> <<>>]
    /\ stop_sent = FALSE
    /\ stop_after = 0
    /\ faults = 0
    /\ Fresh

\* what the call leaves alone
batcherFrame ==
    <<logs_queue, flagVars, loopVars, task_info_update_messages,
      task_info_insert_messages, task_info_all_messages, try_update_messages,
      try_insert_messages, interval, threshold, storeVars, histVars,
      exception_q, x>>

\* if time.time() - start >= interval or len(messages) >= threshold: break
BatchCheck ==
    /\ pc[C] = "batch_check"
    /\ pc' = [pc EXCEPT ![C] = IF elapsed \/ Len(priority_messages) >= threshold
                                THEN "batch_return" ELSE "batch_get"]
    /\ UNCHANGED <<batcherFrame, pending, priority_messages, elapsed>>

\* x = msg_queue.get(timeout=0.1); messages.append(x).  The list is kept up
\* to MaxBatch items, which every finite threshold is below
BatchGet ==
    /\ pc[C] = "batch_get"
    /\ pending_priority_queue # <<>>
    /\ priority_messages' =
          IF Len(priority_messages) < MaxBatch
          THEN Append(priority_messages, Head(pending_priority_queue))
          ELSE priority_messages
    /\ pending' = [pending EXCEPT !["priority"] = Tail(@)]
    /\ pc' = [pc EXCEPT ![C] = "batch_check"]
    /\ UNCHANGED <<batcherFrame, elapsed>>

\* except queue.Empty: break, the queue having stayed empty for 0.1 s
BatchEmpty ==
    /\ pc[C] = "batch_get"
    /\ pending_priority_queue = <<>>
    /\ pc' = [pc EXCEPT ![C] = "batch_return"]
    /\ UNCHANGED <<batcherFrame, pending, priority_messages, elapsed>>

\* time passes: a finite interval is over at some time, float('inf') never
Tick ==
    /\ pc[C] \in {"batch_check", "batch_get"}
    /\ interval # Inf
    /\ ~elapsed
    /\ elapsed' = TRUE
    /\ UNCHANGED <<batcherFrame, pending, priority_messages, pc>>

\* the intake thread of the stream puts one more item on the internal queue
Feed ==
    /\ Len(pending_priority_queue) < MaxFed
    /\ pending' = [pending EXCEPT !["priority"] = Append(@, FedItem)]
    /\ UNCHANGED <<batcherFrame, priority_messages, elapsed, pc>>

Batcher == BatchCheck \/ BatchGet \/ BatchEmpty

BatcherNext == Batcher \/ Tick \/ Feed

\* the coordinator's thread runs, time passes; nothing obliges the intake
\* thread to put, and nothing keeps it from putting
BatcherSpec ==
    BatcherInit /\ [][BatcherNext]_vars /\ WF_vars(Batcher) /\ WF_vars(Tick)

(***************************************************************************)
(* What the properties below read off a state.                             *)
(***************************************************************************)
\* the coordinator stands between two iterations of its loop, or has left
\* the loop by its condition
BetweenIterations ==
    /\ pc[C] \in {"while", "while_pp", "while_pr", "while_ep", "while_er", "done"}
    /\ exception_q = <<>>

Pairs == TaskIds \X TryIds

OfPair(msg, p) == msg.task_id = p[1] /\ msg.try_id = p[2]

\* the Status rows that record the transition of a try to running
RunningRows(p) ==
    {s \in db[STATUS] : OfPair(s, p) /\ s.task_status_name = running}

\* the first messages of a try among the resource messages seq
FirstMsgs(seq, p) ==
    {i \in 1..Len(seq) : seq[i].first_msg /\ OfPair(seq[i], p)}

\* a TASK_INFO message of the try was handed to the coordinator
TaskInfoReceived(p) ==
    \E i \in 1..Len(received["priority"]) :
        /\ received["priority"][i][1] = "TASK_INFO"
        /\ OfPair(received["priority"][i][2], p)

HasTry(r) ==
    \E t \in db[TRY] :
        t.try_id = r.try_id /\ t.task_id = r.task_id /\ t.run_id = r.run_id

HasTask(r) ==
    \E t \in db[TASK] : t.task_id = r.task_id /\ t.run_id = r.run_id

NoDuplicates(seq) == \A i, j \in 1..Len(seq) : seq[i] = seq[j] => i = j

\* what an intake thread holds between get and put, as it will forward it
Held(tag) ==
    IF pc[tag] = "got" /\ ~IsStop(x[tag]) THEN <<Forwarded(tag, x[tag])>> ELSE <<>>

AllEmpty(e) ==
    \A tag \in Tags : e.logs_queue[tag] = <<>> /\ e.pending[tag] = <<>>

(***************************************************************************)
(* Referential closure.                                                    *)
(***************************************************************************)
\* C1: in a run without DML failures, after every iteration of the
\* coordinator, every Resource row has a Try row with its try_id, task_id
\* and run_id.
C1_ResourceRowsHaveTry ==
    (dml_failures = 0 /\ BetweenIterations) =>
        \A r \in db[RESOURCE] : HasTry(r)

\* C2: after every iteration of the coordinator, every Status row and every
\* Try row has a Task row with its task_id and run_id, also when a Task
\* insert failed and was rolled back.
C2_StatusAndTryRowsHaveTask ==
    BetweenIterations =>
        /\ \A r \in db[STATUS] : HasTask(r)
        /\ \A r \in db[TRY] : HasTask(r)

(***************************************************************************)
(* At-most-once insert of Task and Try.                                    *)
(***************************************************************************)
\* C3: the coordinator issues the insert of a task_id into Task at most
\* once and the insert of a (task_id, try_id) into Try at most once, so no
\* primary-key conflict is raised on Task or on Try.
C3_InsertAtMostOnce ==
    /\ NoDuplicates(insert_issued[TASK])
    /\ NoDuplicates(insert_issued[TRY])
    /\ TASK \notin pk_conflicts
    /\ TRY \notin pk_conflicts

\* C3 witness: two TASK_INFO messages of one try were applied, the second
\* through the update lists.
C3_SecondTaskInfoApplied ==
    /\ pc[C] = "get_node"
    /\ Len(insert_issued[TASK]) = 1
    /\ Len(insert_issued[TRY]) = 1
    /\ Cardinality({r \in db[STATUS] : r.task_status_name # running}) = 2
    /\ Cardinality(db[TRY]) = 1

(***************************************************************************)
(* Promotion of the first resource message of a try.                       *)
(***************************************************************************)
\* the TASK_INFO of try p and the one first resource message sent for p have
\* both been processed, in a run where no DML call failed for an outside
\* reason
BothProcessed(p) ==
    /\ injected = 0
    /\ BetweenIterations
    /\ TaskInfoReceived(p)
    /\ Cardinality(FirstMsgs(sent["resource"], p)) = 1
    /\ Cardinality(FirstMsgs(received["resource"], p)) = 1

\* C4: once the TASK_INFO of a try and its single first resource message
\* have both been processed, in either order, Status holds exactly one
\* "running" row of the try, and the Try row holds the timestamp of the
\* resource message as task_time_running and its hostname.
C4_PromotedOnce ==
    \A p \in Pairs :
        BothProcessed(p) =>
            LET i == CHOOSE i \in FirstMsgs(received["resource"], p) : TRUE
                msg == received["resource"][i]
            IN  /\ Cardinality(RunningRows(p)) = 1
                /\ \A s \in RunningRows(p) : s.timestamp = msg.timestamp
                /\ \E t \in db[TRY] :
                      /\ OfPair(t, p)
                      /\ t.task_time_running = msg.timestamp
                      /\ t.hostname = msg.hostname

\* C4 witness: the TASK_INFO of a try and its first resource message were
\* both processed, nothing is left deferred and the try has its "running"
\* row.
C4_TryPromoted ==
    \E p \in Pairs :
        /\ BothProcessed(p)
        /\ Len(received["resource"]) = 1
        /\ Len(received["priority"]) = 1
        /\ Cardinality(db[RESOURCE]) = 1
        /\ DOMAIN deferred_resource_messages = {}
        /\ Cardinality(RunningRows(p)) = 1

\* C5: after every iteration of the coordinator, a try with a first
\* resource message in Resource has exactly one "running" row in Status.
C5_FirstMsgImpliesRunningOnce ==
    \A p \in Pairs :
        (/\ dml_failures = 0
         /\ BetweenIterations
         /\ \E i \in FirstMsgs(received["resource"], p) :
               \E r \in db[RESOURCE] :
                  OfPair(r, p) /\ r.timestamp = received["resource"][i].timestamp)
        => Cardinality(RunningRows(p)) = 1

(***************************************************************************)
(* Shutdown.                                                               *)
(***************************************************************************)
\* C6: when the coordinator loop terminates after the shutdown flag was set
\* and the senders had stopped, the three internal and the three external
\* queues are empty.
C6_QueuesEmptyAtExit ==
    \A e \in at_exit : e.quiet => AllEmpty(e)

\* C7: when the coordinator loop has terminated after the senders had
\* stopped, every message placed on the external priority or resource
\* queue has been handed to the coordinator in a batch.
C7_NothingLostAtShutdown ==
    (pc[C] = "done" /\ \E e \in at_exit : e.quiet) =>
        /\ received["priority"] = sent["priority"]
        /\ received["resource"] = sent["resource"]

\* C8: under fair scheduling, once STOP is on the priority queue, the
\* coordinator and the three intake threads eventually all terminate.
C8_AllTerminate ==
    stop_sent ~> (\A t \in Threads : pc[t] = "done")

(***************************************************************************)
(* Order within a stream.                                                  *)
(***************************************************************************)
\* C9: for each stream, what the coordinator has received, then what is on
\* the internal queue, then what the intake thread holds, then what is on
\* the external queue, is what was placed on the external queue, in that
\* order: nothing is reordered, duplicated or dropped on the way.
C9_StreamOrderKept ==
    \A tag \in Tags :
        received[tag] \o pending[tag] \o Held(tag) \o NonStop(tag, logs_queue[tag])
            = sent[tag]

\* C9 witness: the coordinator has received both messages of the resource
\* stream and a priority message, and has stored the two Resource rows.
C9_StreamsReceived ==
    /\ Len(sent["resource"]) = 2
    /\ received["resource"] = sent["resource"]
    /\ Cardinality(db[RESOURCE]) = 2
    /\ Len(received["priority"]) = 1
    /\ pc[C] = "while"

(***************************************************************************)
(* Who uses the store session.                                             *)
(***************************************************************************)
\* C10: only the coordinator thread issues DML calls, and no two threads
\* are inside a store operation at the same time.
C10_StoreUsedByCoordinatorOnly ==
    /\ store_threads \subseteq {C}
    /\ ~overlap

(***************************************************************************)
(* Workflow finalisation.                                                  *)
(***************************************************************************)
IsWorkflowStart(item) ==
    item[1] = "WORKFLOW_INFO" /\ "python_version" \in DOMAIN item[2]

IsWorkflowEnd(item) ==
    item[1] = "WORKFLOW_INFO" /\ "python_version" \notin DOMAIN item[2]

Starts(seq) == {i \in 1..Len(seq) : IsWorkflowStart(seq[i])}

Ends(seq) == {i \in 1..Len(seq) : IsWorkflowEnd(seq[i])}

\* every thread has terminated, the coordinator by its loop condition, every
\* priority message sent was handed to the coordinator and no DML call raised
TerminatedCleanly ==
    /\ \A t \in Threads : pc[t] = "done"
    /\ exception_q = <<>>
    /\ stop_sent
    /\ received["priority"] = sent["priority"]
    /\ dml_failures = 0

\* the priority messages placed before STOP
SentBeforeStop == SubSeq(sent["priority"], 1, stop_after)

\* C11: when a workflow start message was sent and the run ends by STOP
\* with no workflow end message, then once the manager has terminated the
\* Workflow row of the run has a time_completed that is not null.
C11_AbnormalExitFinalised ==
    (/\ TerminatedCleanly
     /\ Starts(SentBeforeStop) # {}
     /\ Ends(sent["priority"]) = {})
    => \E r \in db[WORKFLOW] : r.run_id = RunId /\ r.time_completed # None

\* C12: in a run with one workflow start message, then one workflow end
\* message, then STOP, once the manager has terminated the Workflow row
\* holds the time_completed of the workflow end message.
C12_EndMessageTimeKept ==
    (/\ TerminatedCleanly
     /\ Cardinality(Starts(sent["priority"])) = 1
     /\ Cardinality(Ends(sent["priority"])) = 1
     /\ \A i \in Starts(sent["priority"]) :
           \A j \in Ends(sent["priority"]) : i < j)
    => \A j \in Ends(sent["priority"]) :
          \E r \in db[WORKFLOW] :
             /\ r.run_id = RunId
             /\ r.time_completed = sent["priority"][j][2].time_completed

(***************************************************************************)
(* Batching.                                                               *)
(***************************************************************************)
\* how many items the coordinator obtained from the batcher in this step
BatchSize(tag) == Len(received'[tag]) - Len(received[tag])

Max(a, b) == IF a > b THEN a ELSE b

\* C13: every batch the coordinator obtains, on any of the three internal
\* queues and at any point of the run including the drain after shutdown,
\* contains at most the batching_threshold the manager was constructed with.
C13_BatchWithinConfigured ==
    [][\A tag \in Tags : BatchSize(tag) <= SmallThreshold]_vars

\* C13, amended: every batch contains at most the threshold in force at the
\* call, which is the configured batching_threshold until close() replaces
\* it by float('inf'); from then on the batch size has no bound.
C13_BatchWithinThresholdInForce ==
    [][\A tag \in Tags :
          BatchSize(tag) <= Max(threshold, batching_threshold)]_vars

\* the coordinator holds a priority batch of the configured size, obtained
\* under the configured threshold while more messages were waiting
C13_BatchCutAtThreshold ==
    /\ pc[C] = "for_priority"
    /\ batching_threshold = SmallThreshold
    /\ Len(priority_messages) = SmallThreshold
    /\ pending_priority_queue # <<>>

(***************************************************************************)
(* Failing DML calls.                                                      *)
(***************************************************************************)
\* the row an insert writes for a message
RowOf(table, msg) == [c \in Columns(table) |-> Get(msg, c)]

\* written by an insert, or among the rows of a call that raised
WrittenOrRolledBack(table, msg) ==
    \/ RowOf(table, msg) \in db[table]
    \/ [table |-> table, row |-> RowOf(table, msg)] \in rolled_back

UnexpectedReceived ==
    \E i \in 1..Len(received["priority"]) :
        received["priority"][i][1] \notin {"WORKFLOW_INFO", "TASK_INFO"}

\* the rows of the calls that raised in this step are not in the store
NothingOfRaisedCallKept ==
    \A m \in rolled_back' \ rolled_back : m.row \notin db'[m.table]

\* a call that raised takes the coordinator to the next message of the
\* priority batch or to its next phase, and the finaliser to its next
\* statement
RaisedCallGoesOn ==
    dml_failures' > dml_failures =>
        \/ pc[C] = "for_priority" /\ pc'[C] \in {"for_priority", "get_node"}
        \/ pc[C] = "get_node" /\ pc'[C] = "get_resource"
        \/ pc[C] = "get_resource" /\ pc'[C] = "while"
        \/ \E t \in Closers : pc[t] = "close_update" /\ pc'[t] = "close_interval"

\* only an unexpected message type ends the coordinator's loop with an error
NoErrorFromRaisedCall ==
    (exception_q # <<>> \/ pc[C] = "except") => UnexpectedReceived

\* between two iterations every resource message and every TASK_INFO message
\* received so far has its Resource or Status row, unless the insert it
\* went into raised
OthersPersisted ==
    BetweenIterations =>
        /\ \A i \in 1..Len(received["resource"]) :
              WrittenOrRolledBack(RESOURCE, received["resource"][i])
        /\ \A i \in 1..Len(received["priority"]) :
              received["priority"][i][1] = "TASK_INFO" =>
                  WrittenOrRolledBack(STATUS, received["priority"][i][2])

C15_StatusAppendOnly ==
    [][/\ db[STATUS] \subseteq db'[STATUS]
       /\ Cardinality(db[STATUS]) <= Cardinality(db'[STATUS])]_vars

\* the Status table holds the rows of two inserts: the "pending" row of a
\* TASK_INFO and the "running" row of a first resource message
C15_TwoStatusInserts ==
    /\ \E r \in db[STATUS] : r.task_status_name = "pending"
    /\ \E r \in db[STATUS] : r.task_status_name = running

(***************************************************************************)
(* Unexpected message types.                                               *)
(***************************************************************************)
\* the priority messages the for loop has been through
Processed ==
    SubSeq(received["priority"], 1,
           Len(received["priority"]) - Len(priority_messages))

UnexpectedProcessed ==
    \E i \in 1..Len(Processed) :
        Processed[i][1] \notin {"WORKFLOW_INFO", "TASK_INFO"}

InClose(t) ==
    pc[t] \in {"close", "close_start", "close_update", "close_interval",
               "close_threshold", "close_kill"}

\* C16: once the for loop has met a priority message whose tag is neither
\* WORKFLOW_INFO nor TASK_INFO, the coordinator is out of its loop for good:
\* it is in the except clause, in close() or finished; from the except
\* clause on ("DBM", error_text) is on the error queue, once and alone, and
\* when the coordinator has finished the shutdown flag is set.
C16_UnexpectedTypeIsFatal ==
    /\ UnexpectedProcessed =>
          /\ pc[C] = "except" \/ InClose(C) \/ pc[C] = "done"
          /\ pc[C] # "except" =>
                exception_q = <<<<"DBM", "Unexpected message type">>>>
          /\ pc[C] = "done" => kill_event
    /\ exception_q # <<>> => UnexpectedProcessed

\* the coordinator met an unexpected type, reported it, ran close() and
\* finished
C16_FatalReported ==
    /\ UnexpectedProcessed
    /\ pc[C] = "done"
    /\ exception_q # <<>>
    /\ kill_event

(***************************************************************************)
(* Two first resource messages ahead of the TASK_INFO of their try.        *)
(***************************************************************************)
Key(p) == p[1] \o "." \o p[2]

\* exactly two first messages of the try were handed to the coordinator
TwoFirstMsgs(p) == Cardinality(FirstMsgs(received["resource"], p)) = 2

\* the timestamp of the later of them
SecondTimestamp(p) ==
    LET F == FirstMsgs(received["resource"], p)
        j == CHOOSE j \in F : \A i \in F : i <= j
    IN  received["resource"][j].timestamp

\* C17: when two first_msg resource messages of a try were processed before
\* its TASK_INFO, then as long as the TASK_INFO has not been processed the
\* deferred map holds under the try's key the second message, the discarding
\* of the first was logged as an error and no "running" Status row exists;
\* and once the TASK_INFO has been processed and the iteration is over (no
\* DML call having raised) the Status table holds exactly one "running" row
\* of the try, with the timestamp of the second message.
C17_SecondDeferredReplacesFirst ==
    \A p \in Pairs :
        /\ Key(p) \in logged => Cardinality(FirstMsgs(received["resource"], p)) >= 2
        /\ (TwoFirstMsgs(p) /\ Key(p) \notin inserted_tries) =>
              /\ Key(p) \in DOMAIN deferred_resource_messages
              /\ deferred_resource_messages[Key(p)].timestamp = SecondTimestamp(p)
              /\ Key(p) \in logged
              /\ RunningRows(p) = {}
        /\ (/\ TwoFirstMsgs(p)
            /\ Key(p) \in logged
            /\ Key(p) \in inserted_tries
            /\ BetweenIterations
            /\ dml_failures = 0) =>
              /\ Cardinality(RunningRows(p)) = 1
              /\ \A r \in RunningRows(p) : r.timestamp = SecondTimestamp(p)

\* two first messages were deferred one after the other, the TASK_INFO of
\* the try was processed and the "running" row written
C17_SecondPromoted ==
    \E p \in Pairs :
        /\ TwoFirstMsgs(p)
        /\ Key(p) \in logged
        /\ Key(p) \in inserted_tries
        /\ BetweenIterations
        /\ \E r \in RunningRows(p) : r.timestamp = SecondTimestamp(p)

(***************************************************************************)
(* The order of the inserts.                                               *)
(***************************************************************************)
\* C18: in the order in which the coordinator issues DML, the Task insert of
\* a task precedes the Try insert of each of its tries, and the Try insert
\* of a try precedes the insert of every Status row and every Resource row
\* of that try.
C18_InsertsInReferenceOrder == out_of_order = {}

(***************************************************************************)
(* The sets of inserted ids.                                               *)
(***************************************************************************)
\* the priority phase of the iteration is over
PriorityPhaseOver ==
    /\ pc[C] \in {"get_node", "get_resource", "while", "while_pp", "while_pr",
                  "while_ep", "while_er", "done"}
    /\ exception_q = <<>>

\* C19: at the end of every priority phase inserted_tasks is the set of the
\* task_id values that have a row in Task, and inserted_tries the set of the
\* (task_id, try_id) pairs that have a row in Try, also after an insert has
\* raised and been rolled back.
C19_InsertedSetsAreTheRows ==
    PriorityPhaseOver =>
        /\ inserted_tasks = {r.task_id : r \in db[TASK]}
        /\ inserted_tries = {task_try_id(r) : r \in db[TRY]}

(***************************************************************************)
(* Termination of the batcher.                                             *)
(***************************************************************************)
\* C20: every call of the batcher returns, whatever interval and threshold
\* it was given, those of close() included, and whatever the intake thread
\* of the queue does meanwhile.
C20_BatcherReturns == <>(pc[C] = "batch_return")

(***************************************************************************)
(* The intake threads.                                                     *)
(***************************************************************************)
\* what the intake thread of a stream has put on its internal queue so far
Migrated(tag) == received[tag] \o pending[tag]

\* C21: an intake thread leaves its loop only in a step taken with the
\* shutdown flag set and its external queue empty, having forwarded every
\* item placed on that queue until then; so it never stops while the flag is
\* unset or its queue holds an item, and what was placed behind STOP on the
\* priority queue is forwarded too.
C21_ExitOnlyWhenFlagSetAndQueueEmpty ==
    [][\A tag \in Tags :
          (pc[tag] # "done" /\ pc'[tag] = "done") =>
              /\ pc[tag] = "poll"
              /\ kill_event
              /\ logs_queue[tag] = <<>>
              /\ Migrated(tag) = sent[tag]]_vars

\* the priority thread has left its loop after forwarding a message that
\* was placed behind STOP
C21_ForwardedBehindStop ==
    /\ pc["priority"] = "done"
    /\ stop_sent
    /\ Len(Migrated("priority")) > stop_after

(***************************************************************************)
(* STOP.                                                                   *)
(***************************************************************************)
\* the priority intake thread has taken STOP off its external queue and
\* looked at it
StopDequeued ==
    /\ stop_sent
    /\ ~HasStop(priority_queue)
    /\ ~(pc["priority"] = "got" /\ IsStop(x["priority"]))

\* a (message_type, message) pair
IsPair(item) == Len(item) = 2 /\ ~IsStop(item)

PairsOnly(seq) == \A i \in 1..Len(seq) : IsPair(seq[i])

\* C22: once the priority intake thread has dequeued STOP it is in close()
\* or has returned from it, and after its return the shutdown flag is set
\* and batching_interval and batching_threshold are both float('inf'); STOP
\* is never on the internal priority queue, so whatever the coordinator
\* reads from that queue is a (message_type, message) pair.
C22_StopRunsFinaliserAndIsNotForwarded ==
    /\ StopDequeued =>
          \/ InClose("priority")
          \/ /\ kill_event
             /\ batching_interval = Inf
             /\ batching_threshold = Inf
    /\ PairsOnly(pending_priority_queue)
    /\ PairsOnly(priority_messages)
    /\ PairsOnly(received["priority"])

\* STOP was dequeued behind a message, close() has returned and the
\* coordinator has read the message from the internal queue
C22_StoppedAndRead ==
    /\ StopDequeued
    /\ ~InClose("priority")
    /\ kill_event
    /\ received["priority"] # <<>>

(***************************************************************************)
(* The row counts.                                                         *)
(***************************************************************************)
\* the TASK_INFO messages among the priority messages seq
TaskInfos(seq) == {i \in 1..Len(seq) : seq[i][1] = "TASK_INFO"}

\* C23: in a run without DML failures, after every iteration of the
\* coordinator, Status holds one row per TASK_INFO message processed plus
\* one row per first resource message promoted, Task one row per distinct
\* task_id of the TASK_INFO messages, and Try one row per distinct
\* (task_id, try_id) of the TASK_INFO messages.
C23_RowCounts ==
    (dml_failures = 0 /\ BetweenIterations) =>
        LET seq == received["priority"] IN
        /\ Cardinality(db[STATUS]) =
              Cardinality(TaskInfos(seq)) + Len(promoted)
        /\ Cardinality(db[TASK]) =
              Cardinality({seq[i][2].task_id : i \in TaskInfos(seq)})
        /\ Cardinality(db[TRY]) =
              Cardinality({<<seq[i][2].task_id, seq[i][2].try_id>> :
                              i \in TaskInfos(seq)})

\* two TASK_INFO messages of one task and a promoted first resource message
\* have been processed without a DML failure
C23_TwoTaskInfosAndAPromotion ==
    /\ dml_failures = 0
    /\ BetweenIterations
    /\ Cardinality(TaskInfos(received["priority"])) = 2
    /\ Cardinality(db[TASK]) = 1
    /\ Len(promoted) = 1
    /\ Cardinality(db[STATUS]) = 3

(***************************************************************************)
(* Deferred and inserted.                                                  *)
(***************************************************************************)
\* C24: in every state of the coordinator no key is both in
\* deferred_resource_messages and in inserted_tries, and the step that marks
\* a try inserted leaves no deferred message under its key.
C24_DeferredNotInserted ==
    DOMAIN deferred_resource_messages \cap inserted_tries = {}

\* the for loop has just marked a try inserted whose first resource message
\* was deferred: the message is on the reprocessable list and no longer
\* deferred
C24_DeferredTakenOnInsert ==
    /\ pc[C] = "for_priority"
    /\ \E i \in 1..Len(reprocessable_first_resource_messages) :
          LET key == task_try_id(reprocessable_first_resource_messages[i]) IN
          /\ key \in inserted_tries
          /\ key \notin DOMAIN deferred_resource_messages

(***************************************************************************)
(* One promotion per first resource message.                               *)
(***************************************************************************)
Count(seq, m) == Cardinality({i \in 1..Len(seq) : seq[i] = m})

Range(seq) == {seq[i] : i \in 1..Len(seq)}

\* the first resource messages read so far that, marked as running, are m
ReceivedAs(m) ==
    {i \in 1..Len(received["resource"]) :
        /\ received["resource"][i].first_msg
        /\ AsRunning(received["resource"][i]) = m}

DeferredAs(m) ==
    {k \in DOMAIN deferred_resource_messages : deferred_resource_messages[k] = m}

\* C25: a first resource message is applied as a promotion at most once in
\* the whole run: the promotions applied so far, the reprocessable list in
\* hand and the deferred messages together hold a message no more often
\* than it was read, so a message promoted in one iteration is neither
\* promoted again nor still waiting in a later one.
C25_PromotedAtMostOnce ==
    \A m \in Range(promoted) \cup Range(reprocessable_first_resource_messages)
                \cup {deferred_resource_messages[k] :
                         k \in DOMAIN deferred_resource_messages} :
        Count(promoted, m) + Count(reprocessable_first_resource_messages, m)
            + Cardinality(DeferredAs(m)) <= Cardinality(ReceivedAs(m))

\* the one first resource message read was promoted in an earlier iteration
\* and the coordinator is in the resource phase of a later one, with a
\* resource message waiting
C25_LaterIterationAfterPromotion ==
    /\ pc[C] = "get_resource"
    /\ Len(promoted) = 1
    /\ Cardinality(ReceivedAs(promoted[1])) = 1
    /\ pending_resource_queue # <<>>

(***************************************************************************)
(* The Try update of a promotion.                                          *)
(***************************************************************************)
\* the messages the step applies as promotions
Applied == SubSeq(promoted', Len(promoted) + 1, Len(promoted'))

\* C26: the Try update that sets task_time_running and hostname of a try is
\* issued only after the Try insert of that try has been issued: every
\* message a step applies as a promotion is of a try that is in
\* inserted_tries and whose insert was issued before the step, the
\* priority phase of the same iteration included.
C26_TryInsertBeforeRunningUpdate ==
    [][\A i \in 1..Len(Applied) :
          LET key == task_try_id(Applied[i]) IN
          /\ key \in inserted_tries
          /\ Issued(TRY, key)]_vars

\* a promotion has been applied to the Try row its insert had made
C26_RunningUpdateApplied ==
    /\ promoted # <<>>
    /\ Issued(TRY, task_try_id(promoted[1]))
    /\ \E r \in db[TRY] :
          /\ task_try_id(r) = task_try_id(promoted[1])
          /\ r.task_time_running = promoted[1].timestamp
          /\ r.hostname = promoted[1].hostname

(***************************************************************************)
(* Stream order of the priority phase.                                     *)
(***************************************************************************)
\* the step is a turn of the for loop that applies the Workflow insert or
\* update of a WORKFLOW_INFO message
WorkflowDmlApplied ==
    /\ pc[C] = "for_priority"
    /\ priority_messages # <<>>
    /\ Head(priority_messages)[1] = "WORKFLOW_INFO"
    /\ priority_messages' = Tail(priority_messages)

\* C27: the store effects of the priority messages of a batch are applied in
\* stream order: when the Workflow insert or update of a WORKFLOW_INFO
\* message is applied, no TASK_INFO message that precedes it in the batch is
\* still waiting for its DML (Workflow counters, Task, Status, Try), so the
\* counters of a workflow end message that ends the batch are the last ones
\* the batch writes to Workflow.
C27_WorkflowDmlInStreamOrder ==
    [][WorkflowDmlApplied => task_info_all_messages = <<>>]_vars

====
